---------------------------- MODULE Spec2Model ----------------------------
(***************************************************************************)
(* A model of py-llm-toolbox: the Toolbox registry (toolbox/toolbox.py),   *)
(* the schema compiler (toolbox/schema.py) and the result serializer       *)
(* (toolbox/messages.py).                                                  *)
(*                                                                         *)
(* Python objects that are shared by reference (the dict and the list the  *)
(* decorators hang on a function object, and that a tool definition keeps) *)
(* live in two heaps, dicts and lists; a reference is an index, 0 stands   *)
(* for "the attribute is not set".                                         *)
(***************************************************************************)
EXTENDS Integers, Sequences, FiniteSets, TLC

VARIABLES
    objs,           \* the function objects of the host: base functions and wrappers
    dicts,          \* heap of dict objects (func._tool_params / properties)
    lists,          \* heap of list objects (func._tool_required / required)
    tools_schema,   \* Toolbox._tools_schema
    functions,      \* Toolbox._functions: name -> function object
    log,            \* history: the decorator applications made so far
    pc,             \* where execute() is: idle, loop, returned, raised
    tool_calls,     \* the argument of the running execute()
    idx,            \* the loop position in tool_calls (1-based)
    results,        \* the local list results of execute()
    invoked,        \* history: per request, how often a callable was called
    raised,         \* the exception that left execute(), None if none
    stdout          \* what execute() printed

vars == <<objs, dicts, lists, tools_schema, functions, log,
          pc, tool_calls, idx, results, invoked, raised, stdout>>

regVars == <<objs, dicts, lists, tools_schema, functions, log>>
execVars == <<pc, tool_calls, idx, results, invoked, raised, stdout>>

---------------------------------------------------------------------------
(* Bounds *)

MaxRegs == 4        \* decorator applications in a registration run
MaxSetup == 2       \* function registrations before a dispatch
MaxCalls == 2       \* requests in one batch

---------------------------------------------------------------------------
(* Python values *)

\* Python's None where a str is expected otherwise (Optional[str]).
None == "<None>"

\* inspect.Parameter.empty: the parameter has no annotation.
Empty == "<empty>"

PyStr(s) == [t |-> "str", s |-> s]
PyInt(n) == [t |-> "int", n |-> n]
PyNone == [t |-> "NoneType"]

Digit(d) ==
    CASE d = 0 -> "0" [] d = 1 -> "1" [] d = 2 -> "2" [] d = 3 -> "3"
      [] d = 4 -> "4" [] d = 5 -> "5" [] d = 6 -> "6" [] d = 7 -> "7"
      [] d = 8 -> "8" [] d = 9 -> "9"

RECURSIVE NatToStr(_)
NatToStr(n) == IF n < 10 THEN Digit(n) ELSE NatToStr(n \div 10) \o Digit(n % 10)

\* str(value), as execute() applies it to a callable's return value.
Str(v) ==
    CASE v.t = "str" -> v.s
      [] v.t = "int" -> IF v.n < 0 THEN "-" \o NatToStr(-v.n) ELSE NatToStr(v.n)
      [] v.t = "NoneType" -> "None"

\* An exception object: its class is an Exception subclass or only a
\* BaseException (SystemExit, KeyboardInterrupt); str(e) is msg.
Exc(cls, msg) == [cls |-> cls, msg |-> msg]

IsException(e) == e.cls \in {"ValueError", "TypeError", "AttributeError", "JSONDecodeError"}

---------------------------------------------------------------------------
(* The host's functions.  hello_world is the one of the test; countdown is *)
(* a second one that returns an int, raises ValueError or exits.           *)

BaseFunctions == <<"hello_world", "countdown">>

\* inspect.signature(func).parameters, in declaration order.
Signature(impl) ==
    IF impl = "hello_world"
    THEN << [name |-> "who", annotation |-> "str", has_default |-> FALSE] >>
    ELSE << [name |-> "n", annotation |-> "int", has_default |-> FALSE],
            [name |-> "who", annotation |-> Empty, has_default |-> TRUE] >>

HasParam(sig, n) == \E i \in 1..Len(sig) : sig[i].name = n

ParamOf(sig, n) == sig[CHOOSE i \in 1..Len(sig) : sig[i].name = n]

---------------------------------------------------------------------------
(* Type translation *)

\* toolbox._python_type_to_json_schema_type on an annotation, given by the
\* name of the type; "Optional[T]" is unwrapped to T first, anything
\* unknown is "string".
PythonTypeToJsonSchemaType(python_type) ==
    LET inner == CASE python_type = "Optional[str]" -> "str"
                   [] python_type = "Optional[int]" -> "int"
                   [] OTHER -> python_type
    IN  CASE inner = "str" -> "string"
          [] inner = "int" -> "integer"
          [] inner = "float" -> "number"
          [] inner = "bool" -> "boolean"
          [] inner = "list" -> "array"
          [] inner = "dict" -> "object"
          [] inner = "Number" -> "number"
          [] OTHER -> "string"

---------------------------------------------------------------------------
(* Ordered dicts: a sequence of [key, value], a key at most once, in       *)
(* insertion order; assigning to a present key keeps its place.            *)

HasKey(d, k) == \E i \in 1..Len(d) : d[i].key = k

DictGet(d, k) == d[CHOOSE i \in 1..Len(d) : d[i].key = k].value

DictSet(d, k, v) ==
    IF HasKey(d, k)
    THEN [i \in 1..Len(d) |-> IF d[i].key = k THEN [key |-> k, value |-> v] ELSE d[i]]
    ELSE Append(d, [key |-> k, value |-> v])

Count(s, x) == Cardinality({i \in 1..Len(s) : s[i] = x})

---------------------------------------------------------------------------
(* Registration inputs *)

\* The description of the test's registration.
TestDescription == "A hello world function that greets someone"

Descriptions == {"", TestDescription}

ParamSpecs ==
    { [name |-> "who", type |-> "string",
       description |-> "The name of the person to greet",
       required |-> TRUE, enum |-> <<>>],
      [name |-> "who", type |-> None, description |-> None,
       required |-> FALSE, enum |-> <<"world", "moon">>],
      [name |-> "n", type |-> None, description |-> "Where to start",
       required |-> TRUE, enum |-> <<>>] }

Init ==
    /\ objs = [i \in 1..Len(BaseFunctions) |->
                 [name |-> BaseFunctions[i], impl |-> BaseFunctions[i],
                  tool_params |-> 0, tool_required |-> 0]]
    /\ dicts = <<>>
    /\ lists = <<>>
    /\ tools_schema = <<>>
    /\ functions = <<>>
    /\ log = <<>>
    /\ pc = "idle"
    /\ tool_calls = <<>>
    /\ idx = 0
    /\ results = <<>>
    /\ invoked = <<>>
    /\ raised = None
    /\ stdout = <<>>

---------------------------------------------------------------------------
(* Toolbox.parameter(name, type, description, required, enum)(func)        *)

\* The type the decorator stores: the given one, or the one derived from
\* the annotation; an exception when it cannot be derived.
ParamType(o, p) ==
    LET sig == Signature(objs[o].impl) IN
    IF p.type # None THEN [ok |-> TRUE, type |-> p.type]
    ELSE IF ~HasParam(sig, p.name) THEN [ok |-> FALSE, type |-> None]
    ELSE IF ParamOf(sig, p.name).annotation = Empty THEN [ok |-> FALSE, type |-> None]
    ELSE [ok |-> TRUE, type |-> PythonTypeToJsonSchemaType(ParamOf(sig, p.name).annotation)]

\* The value stored under the parameter's name.
ParamEntry(p, ty) ==
    IF p.enum # <<>>
    THEN [type |-> ty, description |-> p.description, enum |-> p.enum]
    ELSE [type |-> ty, description |-> p.description]

ParameterDecorator(o, p) ==
    LET hadParams == objs[o].tool_params # 0
        pref == IF hadParams THEN objs[o].tool_params ELSE Len(dicts) + 1
        dicts1 == IF hadParams THEN dicts ELSE Append(dicts, <<>>)
        ty == ParamType(o, p)
        hadReq == objs[o].tool_required # 0
        rref == IF hadReq THEN objs[o].tool_required ELSE Len(lists) + 1
        lists1 == IF hadReq THEN lists ELSE Append(lists, <<>>)
    IN
    /\ pc = "idle"
    /\ IF ~ty.ok
       THEN \* ValueError: only func._tool_params = {} has happened
            /\ objs' = [objs EXCEPT ![o].tool_params = pref]
            /\ dicts' = dicts1
            /\ lists' = lists
       ELSE /\ objs' = [objs EXCEPT ![o].tool_params = pref, ![o].tool_required = rref]
            /\ dicts' = [dicts1 EXCEPT ![pref] = DictSet(@, p.name, ParamEntry(p, ty.type))]
            /\ lists' = IF p.required
                        THEN [lists1 EXCEPT ![rref] = Append(@, p.name)]
                        ELSE lists1
    /\ log' = Append(log, [op |-> "parameter", obj |-> o, fname |-> objs[o].name,
                           param |-> p, ok |-> ty.ok, ret |-> o])
    /\ UNCHANGED <<tools_schema, functions>>
    /\ UNCHANGED execVars

---------------------------------------------------------------------------
(* Toolbox.function(description)(func)                                     *)

\* FunctionDecorator that leaves the containers it made on the function:
\* a function without parameter metadata gets the fresh dict and list as its
\* _tool_params and _tool_required, and the wrapper carries them too.
FunctionDecoratorSharesFresh(o, description) ==
    LET hadParams == objs[o].tool_params # 0
        pref == IF hadParams THEN objs[o].tool_params ELSE Len(dicts) + 1
        hadReq == objs[o].tool_required # 0
        rref == IF hadReq THEN objs[o].tool_required ELSE Len(lists) + 1
        wrapper == [name |-> objs[o].name, impl |-> objs[o].impl,
                    tool_params |-> pref, tool_required |-> rref]
    IN
    /\ pc = "idle"
    /\ dicts' = IF hadParams THEN dicts ELSE Append(dicts, <<>>)
    /\ lists' = IF hadReq THEN lists ELSE Append(lists, <<>>)
    /\ tools_schema' = Append(tools_schema,
                              [name |-> objs[o].name, description |-> description,
                               properties |-> pref, required |-> rref])
    /\ functions' = (objs[o].name :> o) @@ functions
    /\ objs' = Append([objs EXCEPT ![o].tool_params = pref, ![o].tool_required = rref],
                      wrapper)
    /\ log' = Append(log, [op |-> "function", obj |-> o, fname |-> objs[o].name,
                           description |-> description, ok |-> TRUE,
                           ret |-> Len(objs) + 1])
    /\ UNCHANGED execVars

FunctionDecorator(o, description) ==
    LET hadParams == objs[o].tool_params # 0
        pref == IF hadParams THEN objs[o].tool_params ELSE Len(dicts) + 1
        hadReq == objs[o].tool_required # 0
        rref == IF hadReq THEN objs[o].tool_required ELSE Len(lists) + 1
        wrapper == [name |-> objs[o].name, impl |-> objs[o].impl,
                    tool_params |-> objs[o].tool_params,
                    tool_required |-> objs[o].tool_required]
    IN
    /\ pc = "idle"
    /\ dicts' = IF hadParams THEN dicts ELSE Append(dicts, <<>>)
    /\ lists' = IF hadReq THEN lists ELSE Append(lists, <<>>)
    /\ tools_schema' = Append(tools_schema,
                              [name |-> objs[o].name, description |-> description,
                               properties |-> pref, required |-> rref])
    /\ functions' = (objs[o].name :> o) @@ functions
    /\ objs' = Append(objs, wrapper)
    /\ log' = Append(log, [op |-> "function", obj |-> o, fname |-> objs[o].name,
                           description |-> description, ok |-> TRUE,
                           ret |-> Len(objs) + 1])
    /\ UNCHANGED execVars

---------------------------------------------------------------------------
(* Toolbox.tools: the schema as the caller reads it                        *)

ToolDefinition(e) ==
    [type |-> "function",
     function |-> [name |-> e.name,
                   description |-> e.description,
                   strict |-> TRUE,
                   parameters |-> [type |-> "object",
                                   properties |-> dicts[e.properties],
                                   required |-> lists[e.required]]]]

tools == [i \in 1..Len(tools_schema) |-> ToolDefinition(tools_schema[i])]

---------------------------------------------------------------------------

(* Dispatch inputs *)

\* The argument strings the model sends, and what json.loads returns for
\* each: a dict, another JSON value, or a JSONDecodeError.
ArgStrings ==
    { "{\"who\": \"world\"}", "{\"who\": ", "{}", "[1]",
      "{\"n\": 3}", "{\"n\": 0}", "{\"n\": -1}" }

JsonLoads(s) ==
    CASE s = "{\"who\": \"world\"}" ->
            [ok |-> TRUE, kind |-> "dict",
             value |-> << [key |-> "who", value |-> PyStr("world")] >>]
      [] s = "{}" -> [ok |-> TRUE, kind |-> "dict", value |-> <<>>]
      [] s = "[1]" -> [ok |-> TRUE, kind |-> "list", value |-> <<>>]
      [] s = "{\"n\": 3}" ->
            [ok |-> TRUE, kind |-> "dict",
             value |-> << [key |-> "n", value |-> PyInt(3)] >>]
      [] s = "{\"n\": 0}" ->
            [ok |-> TRUE, kind |-> "dict",
             value |-> << [key |-> "n", value |-> PyInt(0)] >>]
      [] s = "{\"n\": -1}" ->
            [ok |-> TRUE, kind |-> "dict",
             value |-> << [key |-> "n", value |-> PyInt(-1)] >>]
      [] OTHER ->
            [ok |-> FALSE, kind |-> "error",
             value |-> Exc("JSONDecodeError",
                           "Expecting value: line 1 column 9 (char 8)")]

\* The requests of the model: [type, has_function, name, arguments]; a
\* request of another type may come without a function payload.
CallShapes ==
    { [type |-> "function", has_function |-> TRUE, name |-> "hello_world", arguments |-> a] :
          a \in {"{\"who\": \"world\"}", "{\"who\": ", "{}", "[1]"} }
    \cup
    { [type |-> "function", has_function |-> TRUE, name |-> "countdown", arguments |-> a] :
          a \in {"{\"n\": 3}", "{\"n\": 0}", "{\"n\": -1}"} }
    \cup
    { [type |-> "function", has_function |-> TRUE, name |-> "nosuch", arguments |-> "{}"],
      [type |-> "custom", has_function |-> FALSE, name |-> None, arguments |-> None],
      [type |-> "custom", has_function |-> TRUE, name |-> "hello_world",
       arguments |-> "{\"who\": \"world\"}"] }

CallId(i) == "call_" \o NatToStr(i)

\* A batch: the shapes, each with the id of its place.
Batch(shapes) ==
    [i \in 1..Len(shapes) |->
        [id |-> CallId(i), type |-> shapes[i].type,
         has_function |-> shapes[i].has_function,
         name |-> shapes[i].name, arguments |-> shapes[i].arguments]]

Batches ==
    UNION { { Batch(s) : s \in [1..n -> CallShapes] } : n \in 0..MaxCalls }

---------------------------------------------------------------------------
(* Calling a host function with keyword arguments                          *)

\* Binding keyword arguments to the signature: a TypeError for a keyword
\* the function does not take, then for a parameter left without a value.
Bind(fname, sig, kwargs) ==
    LET extra == {i \in 1..Len(kwargs) : ~HasParam(sig, kwargs[i].key)}
        missing == {i \in 1..Len(sig) :
                      ~sig[i].has_default /\ ~HasKey(kwargs, sig[i].name)}
    IN  IF extra # {}
        THEN [ok |-> FALSE,
              exc |-> Exc("TypeError",
                          fname \o "() got an unexpected keyword argument '"
                          \o kwargs[CHOOSE i \in extra : \A j \in extra : i <= j].key \o "'")]
        ELSE IF missing # {}
        THEN [ok |-> FALSE,
              exc |-> Exc("TypeError",
                          fname \o "() missing " \o NatToStr(Cardinality(missing))
                          \o " required positional argument: '"
                          \o sig[CHOOSE i \in missing : \A j \in missing : i <= j].name \o "'")]
        ELSE [ok |-> TRUE, exc |-> None]

\* The body of a host function on bound arguments.
Body(impl, kwargs) ==
    IF impl = "hello_world"
    THEN [kind |-> "return", value |-> PyStr("Hello " \o Str(DictGet(kwargs, "who")))]
    ELSE LET n == DictGet(kwargs, "n").n IN
         IF n > 0 THEN [kind |-> "return", value |-> PyInt(n - 1)]
         ELSE IF n = 0
         THEN [kind |-> "raise", value |-> Exc("ValueError", "n must be positive")]
         ELSE [kind |-> "raise", value |-> Exc("SystemExit", "countdown aborted")]

\* function_to_call called with fn_args as keywords: a wrapper passes the call on.
CallFunction(o, kwargs) ==
    LET b == Bind(objs[o].name, Signature(objs[o].impl), kwargs) IN
    IF b.ok THEN Body(objs[o].impl, kwargs)
    ELSE [kind |-> "raise", value |-> b.exc]

---------------------------------------------------------------------------
(* Toolbox.execute(tool_calls)                                             *)

ToolMessage(call, fn_name, content) ==
    [tool_call_id |-> call.id, role |-> "tool", name |-> fn_name, content |-> content]

AssistantMessage(calls) == [role |-> "assistant", tool_calls |-> calls]

\* TryBlock with a retry: a call that raised is made a second time.
TryBlockRetry(call) ==
    LET parsed == JsonLoads(call.arguments) IN
    IF ~parsed.ok THEN [kind |-> "raise", value |-> parsed.value, called |-> 0]
    ELSE IF parsed.kind # "dict"
    THEN [kind |-> "raise",
          value |-> Exc("AttributeError", "'list' object has no attribute 'items'"),
          called |-> 0]
    ELSE LET out == CallFunction(functions[call.name], parsed.value) IN
         [kind |-> out.kind, value |-> out.value,
          called |-> IF out.kind = "raise" THEN 2 ELSE 1]

\* The try block of one iteration: what happens inside it, and whether the
\* callable was called.
TryBlock(call) ==
    LET parsed == JsonLoads(call.arguments) IN
    IF ~parsed.ok THEN [kind |-> "raise", value |-> parsed.value, called |-> 0]
    ELSE IF parsed.kind # "dict"
    THEN [kind |-> "raise",
          value |-> Exc("AttributeError", "'list' object has no attribute 'items'"),
          called |-> 0]
    ELSE LET out == CallFunction(functions[call.name], parsed.value) IN
         [kind |-> out.kind, value |-> out.value, called |-> 1]

\* One iteration of the loop on one request:
\*   propagate: an exception leaves execute();
\*   skip: nothing is appended (the name is printed);
\*   message: one tool message is appended.
DispatchOne(call) ==
    IF ~call.has_function
    THEN [kind |-> "propagate",
          exc |-> Exc("AttributeError", "object has no attribute 'function'"),
          called |-> 0]
    ELSE IF call.name \notin DOMAIN functions
    THEN [kind |-> "skip",
          print |-> "Error: Function " \o call.name \o " not found in toolbox.",
          called |-> 0]
    ELSE LET t == TryBlock(call) IN
         IF t.kind = "return"
         THEN [kind |-> "message",
               msg |-> ToolMessage(call, call.name, Str(t.value)),
               called |-> t.called]
         ELSE IF IsException(t.value)
         THEN [kind |-> "message",
               msg |-> ToolMessage(call, call.name,
                                   "Error executing " \o call.name \o ": " \o t.value.msg),
               called |-> t.called]
         ELSE [kind |-> "propagate", exc |-> t.value, called |-> t.called]

\* The call: results starts with the assistant message; an empty batch
\* returns at once.
Execute(calls) ==
    /\ pc = "idle"
    /\ tool_calls' = calls
    /\ results' = << AssistantMessage(calls) >>
    /\ invoked' = [i \in 1..Len(calls) |-> 0]
    /\ idx' = 1
    /\ pc' = IF calls = <<>> THEN "returned" ELSE "loop"
    /\ UNCHANGED <<raised, stdout>>
    /\ UNCHANGED regVars

\* ExecuteIteration with an except branch that gives up the batch: after
\* the error message of a failed call, execute() returns.
ExecuteIterationStopsOnError ==
    /\ pc = "loop"
    /\ idx <= Len(tool_calls)
    /\ LET d == DispatchOne(tool_calls[idx])
           failed == /\ d.kind = "message"
                     /\ TryBlock(tool_calls[idx]).kind = "raise"
       IN
       /\ invoked' = [invoked EXCEPT ![idx] = @ + d.called]
       /\ CASE d.kind = "propagate" ->
                 /\ pc' = "raised"
                 /\ raised' = d.exc
                 /\ UNCHANGED <<idx, results, stdout>>
            [] d.kind = "skip" ->
                 /\ stdout' = Append(stdout, d.print)
                 /\ idx' = idx + 1
                 /\ UNCHANGED <<pc, results, raised>>
            [] d.kind = "message" ->
                 /\ results' = Append(results, d.msg)
                 /\ idx' = idx + 1
                 /\ pc' = IF failed THEN "returned" ELSE pc
                 /\ UNCHANGED <<raised, stdout>>
    /\ UNCHANGED tool_calls
    /\ UNCHANGED regVars

\* One pass through the body of "for tool_call in tool_calls".
ExecuteIteration ==
    /\ pc = "loop"
    /\ idx <= Len(tool_calls)
    /\ LET d == DispatchOne(tool_calls[idx]) IN
       /\ invoked' = [invoked EXCEPT ![idx] = @ + d.called]
       /\ CASE d.kind = "propagate" ->
                 /\ pc' = "raised"
                 /\ raised' = d.exc
                 /\ UNCHANGED <<idx, results, stdout>>
            [] d.kind = "skip" ->
                 /\ stdout' = Append(stdout, d.print)
                 /\ idx' = idx + 1
                 /\ UNCHANGED <<pc, results, raised>>
            [] d.kind = "message" ->
                 /\ results' = Append(results, d.msg)
                 /\ idx' = idx + 1
                 /\ UNCHANGED <<pc, raised, stdout>>
    /\ UNCHANGED tool_calls
    /\ UNCHANGED regVars

\* The loop is over: return results.
ExecuteReturn ==
    /\ pc = "loop"
    /\ idx > Len(tool_calls)
    /\ pc' = "returned"
    /\ UNCHANGED <<tool_calls, idx, results, invoked, raised, stdout>>
    /\ UNCHANGED regVars

\* What execute() hands back: the list results itself.
ReturnValue == [py |-> "list", items |-> results]

---------------------------------------------------------------------------
(* schema.build_tools_schema(functions)                                    *)

\* A Function descriptor and a Parameter descriptor of schema.py.
Function(name, description, parameters) ==
    [name |-> name, description |-> description, parameters |-> parameters]

Parameter(name, type, description, required, enum) ==
    [name |-> name, type |-> type, description |-> description,
     required |-> required, enum |-> enum]

Truthy(s) == s # None /\ s # ""

\* param_dict: type, and description and enum only when they are truthy.
ParameterSchema(param) ==
    IF Truthy(param.description) /\ param.enum # <<>>
    THEN [type |-> param.type, description |-> param.description, enum |-> param.enum]
    ELSE IF Truthy(param.description)
    THEN [type |-> param.type, description |-> param.description]
    ELSE IF param.enum # <<>>
    THEN [type |-> param.type, enum |-> param.enum]
    ELSE [type |-> param.type]

RECURSIVE PropertiesOf(_)
PropertiesOf(params) ==
    IF params = <<>> THEN <<>>
    ELSE LET n == Len(params) IN
         DictSet(PropertiesOf(SubSeq(params, 1, n - 1)),
                 params[n].name, ParameterSchema(params[n]))

RECURSIVE RequiredOf(_)
RequiredOf(params) ==
    IF params = <<>> THEN <<>>
    ELSE LET n == Len(params)
             before == RequiredOf(SubSeq(params, 1, n - 1))
         IN  IF params[n].required THEN Append(before, params[n].name) ELSE before

RECURSIVE BuildToolsSchema(_)
BuildToolsSchema(fs) ==
    IF fs = <<>> THEN <<>>
    ELSE LET n == Len(fs)
             before == BuildToolsSchema(SubSeq(fs, 1, n - 1))
             f == fs[n]
         IN  IF ~Truthy(f.name) \/ ~Truthy(f.description) THEN before
             ELSE Append(before,
                         [type |-> "function",
                          function |-> [name |-> f.name,
                                        description |-> f.description,
                                        strict |-> TRUE,
                                        parameters |-> [type |-> "object",
                                                        properties |-> PropertiesOf(f.parameters),
                                                        required |-> RequiredOf(f.parameters)]]])

---------------------------------------------------------------------------
(* messages.serialize_results(results)                                     *)

SuccessResult(call, name, output) ==
    [class |-> "SuccessResult", tool_call |-> call, name |-> name, output |-> output]

ErrorResult(call, name, error) ==
    [class |-> "ErrorResult", tool_call |-> call, name |-> name, error |-> error]

\* tool_call.model_dump(): the request as nested dicts.
ModelDump(call) ==
    [id |-> call.id, type |-> call.type,
     function |-> [name |-> call.name, arguments |-> call.arguments]]

ResultContent(r) ==
    IF r.class = "SuccessResult" THEN Str(r.output)
    ELSE "Error executing " \o r.name \o ": " \o r.error.msg

\* The pair (assistant_message, serialized_results).
SerializeResults(rs) ==
    [py |-> "tuple",
     items |-> << [role |-> "assistant",
                   tool_calls |-> [i \in 1..Len(rs) |-> ModelDump(rs[i].tool_call)]],
                  [py |-> "list",
                   items |-> [i \in 1..Len(rs) |->
                                 [tool_call_id |-> rs[i].tool_call.id,
                                  role |-> "tool",
                                  name |-> rs[i].name,
                                  content |-> ResultContent(rs[i])]]] >>]

---------------------------------------------------------------------------
(* Specifications *)

\* Registration: decorators applied to the host's functions in any order.
NextReg ==
    \/ \E o \in 1..Len(objs), p \in ParamSpecs :
          Len(log) < MaxRegs /\ ParameterDecorator(o, p)
    \/ \E o \in 1..Len(objs), d \in Descriptions :
          Len(log) < MaxRegs /\ FunctionDecorator(o, d)

Spec == Init /\ [][NextReg]_vars

\* Dispatch: some functions are registered (execute() reads no description,
\* one is enough), then one batch is executed.
NextDispatch ==
    \/ \E o \in 1..Len(objs) :
          Len(log) < MaxSetup /\ FunctionDecorator(o, TestDescription)
    \/ \E calls \in Batches : Execute(calls)
    \/ ExecuteIteration
    \/ ExecuteReturn

SpecDispatch == Init /\ [][NextDispatch]_vars

---------------------------------------------------------------------------
(* Vocabulary of the dispatch claims                                       *)

\* The tool messages execute() has produced so far (results without the
\* assistant message at its head).
ToolMessages == SubSeq(results, 2, Len(results))

MessagesFor(msgs, id) == {k \in 1..Len(msgs) : msgs[k].tool_call_id = id}

\* Request i has been worked on: the loop is past it, or stopped at it.
Processed(i) == i < idx \/ (pc = "raised" /\ i = idx)

Resolves(call) == call.has_function /\ call.name \in DOMAIN functions

ArgumentsParse(call) ==
    JsonLoads(call.arguments).ok /\ JsonLoads(call.arguments).kind = "dict"

\* The request reaches its callable, and that call raises / returns.
CallableRaises(call) ==
    Resolves(call) /\ ArgumentsParse(call)
    /\ CallFunction(functions[call.name], JsonLoads(call.arguments).value).kind = "raise"

CallableReturns(call) ==
    Resolves(call) /\ ArgumentsParse(call)
    /\ CallFunction(functions[call.name], JsonLoads(call.arguments).value).kind = "return"

\* What the call of the request's callable raises or returns.
RaisedException(call) ==
    CallFunction(functions[call.name], JsonLoads(call.arguments).value).value

ReturnedValue(call) ==
    CallFunction(functions[call.name], JsonLoads(call.arguments).value).value

RemoveAt(s, i) == SubSeq(s, 1, i - 1) \o SubSeq(s, i + 1, Len(s))

\* The tool messages of a whole batch, request by request, up to a request
\* that lets an exception out.
RECURSIVE RunBatch(_)
RunBatch(calls) ==
    IF calls = <<>> THEN <<>>
    ELSE LET d == DispatchOne(Head(calls)) IN
         CASE d.kind = "propagate" -> <<>>
           [] d.kind = "skip" -> RunBatch(Tail(calls))
           [] d.kind = "message" -> <<d.msg>> \o RunBatch(Tail(calls))

\* The content of the Success messages of the requests other than i is what
\* the batch without request i gives.
OthersUnaffected(i) ==
    LET without == RunBatch(RemoveAt(tool_calls, i)) IN
    \A j \in 1..Len(tool_calls) :
        (j # i /\ CallableReturns(tool_calls[j])) =>
            /\ Cardinality(MessagesFor(ToolMessages, tool_calls[j].id)) = 1
            /\ Cardinality(MessagesFor(without, tool_calls[j].id)) = 1
            /\ \A a \in MessagesFor(ToolMessages, tool_calls[j].id),
                  b \in MessagesFor(without, tool_calls[j].id) :
                  ToolMessages[a].content = without[b].content

ErrorMessage(call, e) ==
    [tool_call_id |-> call.id, role |-> "tool", name |-> call.name,
     content |-> "Error executing " \o call.name \o ": " \o e.msg]

Contained(i) ==
    /\ ~(pc = "raised" /\ idx = i)
    /\ i < idx =>
         \E k \in 1..Len(ToolMessages) :
            ToolMessages[k] = ErrorMessage(tool_calls[i], RaisedException(tool_calls[i]))
    /\ pc = "returned" => OthersUnaffected(i)

---------------------------------------------------------------------------
(* Claims about dispatch (checked under SpecDispatch)                      *)

\* C1: a returned dispatch of N requests has produced exactly N tool
\* messages, the i-th with the id of the i-th request.
C1_OneMessagePerRequestInOrder ==
    pc = "returned" =>
        /\ Len(ToolMessages) = Len(tool_calls)
        /\ \A i \in 1..Len(tool_calls) :
              i <= Len(ToolMessages) => ToolMessages[i].tool_call_id = tool_calls[i].id

\* C2: a request naming an unregistered function yields exactly one tool
\* message, with that request's id and the requested name, and the dispatch
\* does not raise on it.
C2_UnregisteredYieldsOneFailure ==
    \A i \in 1..Len(tool_calls) :
        (/\ tool_calls[i].type = "function"
         /\ tool_calls[i].has_function
         /\ tool_calls[i].name \notin DOMAIN functions
         /\ Processed(i)) =>
            /\ pc # "raised" \/ idx # i
            /\ Cardinality(MessagesFor(ToolMessages, tool_calls[i].id)) = 1
            /\ \A k \in MessagesFor(ToolMessages, tool_calls[i].id) :
                  ToolMessages[k].name = tool_calls[i].name

\* C3 as stated: whenever the callable of a request raises, the dispatch does
\* not raise, the request's message is "Error executing <name>: <message>",
\* and the other requests' Success contents are those of the batch without it.
C3_AnyRaiseIsContained ==
    \A i \in 1..Len(tool_calls) :
        (pc # "idle" /\ CallableRaises(tool_calls[i])) => Contained(i)

\* C3 amended: the same, for a callable that raises an exception of class
\* Exception (or a subclass of it).
C3_ExceptionIsContained ==
    \A i \in 1..Len(tool_calls) :
        (/\ pc # "idle"
         /\ CallableRaises(tool_calls[i])
         /\ IsException(RaisedException(tool_calls[i]))) => Contained(i)

\* A returned batch in which a callable raised an Exception before and after
\* a request that succeeded.
C3_Witness ==
    /\ pc = "returned"
    /\ \E i, j \in 1..Len(tool_calls) :
          /\ i < j
          /\ CallableRaises(tool_calls[i])
          /\ IsException(RaisedException(tool_calls[i]))
          /\ CallableReturns(tool_calls[j])

\* C4: a request whose type is not "function" is never invoked, does not
\* make the dispatch raise, and yields one message with the name "unknown".
C4_UnsupportedTypeYieldsUnknown ==
    \A i \in 1..Len(tool_calls) :
        (pc # "idle" /\ tool_calls[i].type # "function") =>
            /\ invoked[i] = 0
            /\ pc # "raised" \/ idx # i
            /\ i < idx =>
                 /\ Cardinality(MessagesFor(ToolMessages, tool_calls[i].id)) = 1
                 /\ \A k \in MessagesFor(ToolMessages, tool_calls[i].id) :
                       ToolMessages[k].name = "unknown"

\* C8: when every request of a (non-empty) batch reaches a callable that
\* returns, execute() returns the pair serialize_results gives for the
\* Success outcomes: the assistant message echoing the calls, and the list
\* of tool messages, the i-th with the id, the name and str(return value) of
\* request i.
C8_ReturnsAssistantAndToolMessages ==
    (/\ pc = "returned"
     /\ tool_calls # <<>>
     /\ \A i \in 1..Len(tool_calls) :
           tool_calls[i].type = "function" /\ CallableReturns(tool_calls[i])) =>
        ReturnValue =
            SerializeResults(
                [i \in 1..Len(tool_calls) |->
                    SuccessResult(tool_calls[i], tool_calls[i].name,
                                  ReturnedValue(tool_calls[i]))])

\* C10: no request has its callable called more than once; a request that
\* has been worked on caused exactly one call when its name resolves and its
\* arguments parse, and none otherwise; a request not yet reached caused none.
C10_NoRetries ==
    \A i \in 1..Len(tool_calls) :
        /\ invoked[i] <= 1
        /\ Processed(i) =>
             invoked[i] = IF Resolves(tool_calls[i]) /\ ArgumentsParse(tool_calls[i])
                          THEN 1 ELSE 0
        /\ ~Processed(i) => invoked[i] = 0

\* A returned batch with a call that raised (made once), a request with
\* malformed arguments and one with an unregistered name (never made).
C10_Witness ==
    /\ pc = "returned"
    /\ \E i, j \in 1..Len(tool_calls) :
          /\ CallableRaises(tool_calls[i]) /\ invoked[i] = 1
          /\ Resolves(tool_calls[j]) /\ ~ArgumentsParse(tool_calls[j]) /\ invoked[j] = 0

---------------------------------------------------------------------------
(* Vocabulary of the registration claims                                   *)

Names == {BaseFunctions[i] : i \in 1..Len(BaseFunctions)}

\* The decorator applications made to the function of name n.
EntriesOf(n) == {k \in 1..Len(log) : log[k].fname = n}

\* Exactly two applications for n: a parameter registration that succeeded,
\* then the function registration of what it returned.
ParameterThenFunction(n, k1, k2) ==
    /\ k1 < k2 /\ EntriesOf(n) = {k1, k2}
    /\ log[k1].op = "parameter" /\ log[k1].ok
    /\ log[k2].op = "function" /\ log[k2].obj = log[k1].ret

\* Exactly two applications for n: the function registration, then a
\* parameter registration, which succeeded, of what it returned.
FunctionThenParameter(n, k1, k2) ==
    /\ k1 < k2 /\ EntriesOf(n) = {k1, k2}
    /\ log[k1].op = "function"
    /\ log[k2].op = "parameter" /\ log[k2].ok /\ log[k2].obj = log[k1].ret

\* The parameters object of the (first) tool definition of name n.
ParametersOf(n) ==
    tools[CHOOSE i \in 1..Len(tools) :
             /\ tools[i].function.name = n
             /\ \A j \in 1..Len(tools) : tools[j].function.name = n => i <= j
         ].function.parameters

ContainsParameter(n, p) ==
    /\ HasKey(ParametersOf(n).properties, p.name)
    /\ p.required => Count(ParametersOf(n).required, p.name) >= 1

\* The function registrations made so far, as Function descriptors.
RegisteredDescriptors ==
    LET IsFunctionReg(e) == e.op = "function"
        regs == SelectSeq(log, IsFunctionReg)
    IN  [i \in 1..Len(regs) |-> Function(regs[i].fname, regs[i].description, <<>>)]

NameAndDescription(schema) ==
    [i \in 1..Len(schema) |->
        <<schema[i].function.name, schema[i].function.description>>]

\* The last function registration of name n.
LastFunctionReg(n) ==
    CHOOSE k \in EntriesOf(n) :
        /\ log[k].op = "function"
        /\ \A m \in EntriesOf(n) : log[m].op = "function" => m <= k

---------------------------------------------------------------------------
(* Claims about registration and the schema (checked under Spec)           *)

\* C5 as stated: with one parameter registration and one function
\* registration for a name, in either order, the schema entry of the name
\* contains the parameter (in required too when required), and the entries
\* the two orders give for the same parameter have equal parameters.
C5_OrderDoesNotMatter ==
    /\ \A n \in Names : \A k1, k2 \in 1..Len(log) :
          /\ ParameterThenFunction(n, k1, k2) => ContainsParameter(n, log[k1].param)
          /\ FunctionThenParameter(n, k1, k2) => ContainsParameter(n, log[k2].param)
    /\ \A n1, n2 \in Names : \A k1, k2, k3, k4 \in 1..Len(log) :
          (/\ ParameterThenFunction(n1, k1, k2)
           /\ FunctionThenParameter(n2, k3, k4)
           /\ log[k1].param = log[k4].param) =>
              ParametersOf(n1) = ParametersOf(n2)

\* C5 amended: the parameter registered before the function is in the entry
\* (in required too when required); the parameter registered after it, on
\* the returned value, is not: the entry keeps empty properties and required.
C5_ParameterMustComeFirst ==
    \A n \in Names : \A k1, k2 \in 1..Len(log) :
        /\ ParameterThenFunction(n, k1, k2) => ContainsParameter(n, log[k1].param)
        /\ FunctionThenParameter(n, k1, k2) =>
              /\ ParametersOf(n).properties = <<>>
              /\ ParametersOf(n).required = <<>>

\* Both orders have been taken with the same parameter, one per function.
C5_Witness ==
    \E n1, n2 \in Names : \E k1, k2, k3, k4 \in 1..Len(log) :
        /\ ParameterThenFunction(n1, k1, k2)
        /\ FunctionThenParameter(n2, k3, k4)
        /\ log[k1].param = log[k4].param
        /\ log[k1].param.required

\* C6: the schema holds at most one tool definition per name; the name's
\* executable and the definition's description are those of the last
\* function registration; the definition keeps the parameters registered
\* for the name before it.
C6_ReRegistrationReplaces ==
    /\ \A i, j \in 1..Len(tools) :
          tools[i].function.name = tools[j].function.name => i = j
    /\ \A n \in DOMAIN functions :
          /\ functions[n] = log[LastFunctionReg(n)].obj
          /\ \A i \in 1..Len(tools) :
                tools[i].function.name = n =>
                   /\ tools[i].function.description = log[LastFunctionReg(n)].description
                   /\ \A m \in EntriesOf(n) :
                         (m < LastFunctionReg(n) /\ log[m].op = "parameter" /\ log[m].ok) =>
                            HasKey(tools[i].function.parameters.properties,
                                   log[m].param.name)

\* C7: the schema the Toolbox exposes names exactly the registered
\* descriptors that schema compilation emits, in registration order: one
\* definition per descriptor with a name and a description, none for a
\* descriptor whose description is empty.
C7_OnlyDescribedFunctionsExposed ==
    NameAndDescription(tools) = NameAndDescription(BuildToolsSchema(RegisteredDescriptors))

\* C9: when a function is registered after two or more registrations of the
\* same parameter name on it, its definition has one property of that name,
\* that of the last registration; the name is at most once in required, and
\* not at all when the last registration had required = false.
C9_SameNameOverwrites ==
    (Len(log) > 0 /\ log[Len(log)].op = "function") =>
        LET k == Len(log)
            o == log[k].obj
            params == tools[Len(tools)].function.parameters
        IN  \A pname \in {p.name : p \in ParamSpecs} :
               LET regs == {m \in 1..(k - 1) :
                              /\ log[m].op = "parameter" /\ log[m].ok
                              /\ log[m].obj = o /\ log[m].param.name = pname}
                   last == CHOOSE m \in regs : \A m2 \in regs : m2 <= m
               IN  Cardinality(regs) >= 2 =>
                      /\ Count([i \in 1..Len(params.properties) |->
                                   params.properties[i].key], pname) = 1
                      /\ DictGet(params.properties, pname) =
                            ParamEntry(log[last].param, ParamType(o, log[last].param).type)
                      /\ Count(params.required, pname) <= 1
                      /\ ~log[last].param.required => Count(params.required, pname) = 0

=============================================================================
